---- MODULE Spec2Model ----
(***************************************************************************)
(* Face-cluster routing of RockInMyHead/photo_st.                          *)
(*                                                                         *)
(* The module models route_by_clusters (src/photo_cluster_router.py) as a  *)
(* state machine over an output root: the directories and files under it,  *)
(* the in-memory dedup sets and audit log of one call, and the report      *)
(* file.  The inputs of a call (records, labels, group_thr) are drawn in   *)
(* Init the way collect_faces and DBSCAN build them.  Copying is the       *)
(* filesystem primitive shutil.copy2, which in this specification always   *)
(* succeeds.  det_score, bbox and embedding of a FaceRec play no part in   *)
(* routing and are left out of the record.                                 *)
(***************************************************************************)
EXTENDS Integers, Sequences, FiniteSets, TLC

\* ------------------------------------------------------------------ bounds
\* Total number of face records of one run.
MaxFaces == 3
\* Largest cluster label DBSCAN hands out (labels are -1, 0 .. MaxLabel).
MaxLabel == 1
\* group_thr ranges over 0 .. MaxThr.
MaxThr == 2
\* Number of consecutive runs against the same output root.
MaxRuns == 2

\* The default of --min-samples.
DefaultMinSamples == 2
\* The default of --eps-sim, 0.55, as the fraction EpsSimNum / EpsSimDen.
EpsSimNum == 55
EpsSimDen == 100
\* min_samples ranges over 1 .. MaxMinSamples in the clustering runs.
MaxMinSamples == 4
\* The runs of main read at most MaxFiles image files, and the detector
\* finds at most MaxDetected faces on one image.
MaxFiles == 2
MaxDetected == 2
\* Two concurrent runs share an input of at most MaxSharedFaces faces.
MaxSharedFaces == 2
\* process_images is called at most MaxJobs times in one app session.
MaxJobs == 2

\* The noise label of DBSCAN, tested at photo_cluster_router.py:149.
NoiseLabel == -1

\* Source images as rglob finds them: two files of the same name in
\* different sub-directories, and one of another name.
Paths ==
  { [dir |-> "a", stem |-> "x", suffix |-> ".jpg"],
    [dir |-> "b", stem |-> "x", suffix |-> ".jpg"],
    [dir |-> "a", stem |-> "y", suffix |-> ".jpg"] }

VARIABLES
  records,               \* list of FaceRec handed to route_by_clusters
  labels,                \* list of cluster labels, labels[i] for records[i]
  group_thr,             \* the personal/group boundary
  pc,                    \* position inside route_by_clusters
  run,                   \* number of the current run against the root
  dirs,                  \* directories that exist under the output root
  fs,                    \* files under the root: destination path -> content
  eligible_clusters,     \* set of eligible labels
  cluster_to_name,       \* eligible label -> person name
  copied_person_image,   \* set of <<person_name, src>>
  staged_group_only,     \* set of src
  staged_unknown,        \* set of src
  log,                   \* in-memory list of report rows
  cursor,                \* position of the per-image loop in image_indices
  flushed,               \* staged sources the flush loops have visited
  report,                \* rows of clustering_report.csv ("none": no file)
  copyOps,               \* history: every shutil.copy2 that was executed
  prev,                  \* history: files and report at the end of the previous run
  failure,               \* history: the shutil.copy2 call that raised, if any
  img_files,             \* the image files collect_faces found under input_dir
  sharp,                 \* sharp[k]: img_files[k] passes the blur test
  detected,              \* detected[k]: embeddings of the faces found on img_files[k]
  fcursor,               \* position of collect_faces in img_files
  embeddings,            \* embeddings[i]: the embedding of records[i]
  min_samples,           \* the DBSCAN density parameter
  procs,                 \* concurrent runs: process -> decisions left, position
  processing_queue,      \* app session: list of queued folder paths
  current_processing,    \* app session: the folder being processed, or "None"
  processing_status,     \* app session: queue status idle / processing / paused
  processing_state,      \* app session: idle / processing / completed / error
  input_dir,             \* app session: the folder the temp dir was filled from
  auto_start_processing, \* app session: process_images starts on the next run
  processed              \* history: the last call of process_images, if any

vars == << records, labels, group_thr, pc, run, dirs, fs, eligible_clusters,
           cluster_to_name, copied_person_image, staged_group_only,
           staged_unknown, log, cursor, flushed, report, copyOps, prev,
           failure, img_files, sharp, detected, fcursor, embeddings, min_samples,
           procs, processing_queue, current_processing, processing_status,
           processing_state, input_dir, auto_start_processing, processed >>

\* the state of the stages before route_by_clusters
pipe == << img_files, sharp, detected, fcursor, embeddings, min_samples >>

\* the state outside one run of main: concurrent runs, the app session
outside == << procs, processing_queue, current_processing, processing_status,
              processing_state, input_dir, auto_start_processing, processed >>

\* no concurrent run, and the session state as show_upload_tab and
\* show_processing_tab initialise it
SessionIdle ==
  /\ processing_queue = << >>
  /\ current_processing = "None"
  /\ processing_status = "idle"
  /\ processing_state = "idle"
  /\ input_dir = "None"
  /\ auto_start_processing = FALSE
  /\ processed = << >>

OutsideIdle == procs = << >> /\ SessionIdle

\* ------------------------------------------------------- generic helpers
Range(s) == { s[i] : i \in DOMAIN s }

RECURSIVE SumTo(_, _)
SumTo(f, k) == IF k = 0 THEN 0 ELSE f[k] + SumTo(f, k - 1)

Min(S) == CHOOSE x \in S : \A y \in S : x <= y

\* sorted(S) of a finite set of integers
RECURSIVE sorted(_)
sorted(S) == IF S = {} THEN << >> ELSE << Min(S) >> \o sorted(S \ {Min(S)})

\* the position of x in the sequence s (x occurs in s)
IndexOf(s, x) == CHOOSE i \in DOMAIN s : s[i] = x

\* ------------------------------------------------- paths and file names
\* Path.name
Name(src) == << src.stem, src.suffix >>

OutDir == << "out_dir" >>
UnknownDir == << "__unknown__" >>
GroupOnlyDir == << "__group_only__" >>

\* f"person_{i:03d}"
PersonName(i) == << "person_", (i \div 100) % 10, (i \div 10) % 10, i % 10 >>

\* f"{src.stem}__{person_name}{src.suffix}"
PersonDstName(src, person_name) == << src.stem, "__", person_name, src.suffix >>

\* out_dir / folder / file_name
Dst(folder, file_name) == << folder, file_name >>

\* A plausible slip: the test made on a path that never exists.
DstExistsNever(fsys, dst) == FALSE

\* dst.exists() and dst.is_file()
DstExists(fsys, dst) == dst \in DOMAIN fsys

\* shutil.copy2(src, dst): dst now holds the content of src
copy2(fsys, src, dst) ==
  [ p \in (DOMAIN fsys) \cup {dst} |-> IF p = dst THEN src ELSE fsys[p] ]

\* A plausible slip: the directory is not made.
ensure_dir_dry(ds, p) == ds

\* ensure_dir
ensure_dir(ds, p) == ds \cup {p}

\* ---------------------------------------------------------- the inputs
\* The FaceRecs collect_faces appends for one image with n detected faces.
FaceRecsOf(img, n) ==
  [ i \in 1..n |-> [img_path |-> img, face_index |-> i - 1, faces_in_image |-> n] ]

\* collect_faces: the records of the images in the order of the file list.
RECURSIVE collect_faces(_, _, _)
collect_faces(files, nfaces, k) ==
  IF k > Len(files) THEN << >>
  ELSE FaceRecsOf(files[k], nfaces[k]) \o collect_faces(files, nfaces, k + 1)

\* Lists of distinct image files, each with at least one detected face.
FileLists ==
  { f \in UNION { [1..k -> Paths] : k \in 0..MaxFaces } :
      \A i, j \in DOMAIN f : i # j => f[i] # f[j] }

FaceCounts(k) ==
  { c \in [1..k -> 1..MaxFaces] : SumTo(c, k) <= MaxFaces }

RecordLists ==
  UNION { { collect_faces(f, c, 1) : c \in FaceCounts(Len(f)) } : f \in FileLists }

\* Label lists as DBSCAN.fit_predict returns them: one label per record,
\* -1 for noise, the clusters numbered 0, 1, .. without a gap.
LabelLists(n) ==
  { l \in [1..n -> NoiseLabel..MaxLabel] :
      \A c \in 1..MaxLabel :
        (\E i \in 1..n : l[i] = c) => (\E i \in 1..n : l[i] = c - 1) }

\* ------------------------------------------- route_by_clusters, helpers
\* Keys of a dict filled by setdefault(key, []).append(idx), in insertion
\* order: the distinct values of s by first occurrence.
RECURSIVE KeyOrder(_, _)
KeyOrder(s, k) ==
  IF k = 0 THEN << >>
  ELSE LET before == KeyOrder(s, k - 1)
       IN  IF s[k] \in Range(before) THEN before ELSE Append(before, s[k])

\* cluster_indices: label -> indices of its records
cluster_indices(labs) ==
  [ lab \in Range(labs) |-> { i \in DOMAIN labs : labs[i] = lab } ]

\* image_indices: the images in insertion order, and image -> indices
image_order(recs) ==
  KeyOrder([ i \in DOMAIN recs |-> recs[i].img_path ], Len(recs))

image_indices(recs, src) == { i \in DOMAIN recs : recs[i].img_path = src }

\* A plausible slip: the boundary taken exclusive (<).
EligibleStrict(recs, labs, thr) ==
  { lab \in DOMAIN cluster_indices(labs) :
      /\ lab # NoiseLabel
      /\ \E i \in cluster_indices(labs)[lab] : recs[i].faces_in_image < thr }

\* eligible_clusters: the non-noise labels with a record of a personal image
Eligible(recs, labs, thr) ==
  { lab \in DOMAIN cluster_indices(labs) :
      /\ lab # NoiseLabel
      /\ \E i \in cluster_indices(labs)[lab] : recs[i].faces_in_image <= thr }

\* A plausible slip: the names handed out in dict insertion order of the
\* labels instead of sorted order.
eligible_unsorted(labs, elig) ==
  SelectSeq(KeyOrder(labs, Len(labs)), LAMBDA lab : lab \in elig)

\* eligible_sorted = sorted(eligible_clusters)
eligible_sorted(labs, elig) == sorted(elig)

\* A plausible slip: the name formatted from the cluster label instead of
\* from the position in eligible_sorted.
ClusterToNameByLabel(labs, elig) == [ cl \in elig |-> PersonName(cl) ]

\* cluster_to_name = {cl: f"person_{i:03d}" for i, cl in enumerate(eligible_sorted)}
ClusterToName(labs, elig) ==
  LET es == eligible_sorted(labs, elig)
  IN  [ cl \in Range(es) |-> PersonName(IndexOf(es, cl) - 1) ]

labs_on_image(labs, idxs) == { labs[i] : i \in idxs }

eligible_on_image(labs, idxs, elig) ==
  { lab \in labs_on_image(labs, idxs) : lab \in elig }

\* A plausible slip: the test lab != -1 left out.
ineligible_with_noise(labs, idxs, elig) ==
  { lab \in labs_on_image(labs, idxs) : lab \notin elig }

ineligible_on_image(labs, idxs, elig) ==
  { lab \in labs_on_image(labs, idxs) : lab \notin elig /\ lab # NoiseLabel }

\* A plausible slip: an image counts as clustered when it has no noise face.
has_no_noise(labs, idxs) == NoiseLabel \notin labs_on_image(labs, idxs)

has_any_cluster(labs, idxs) ==
  Cardinality(labs_on_image(labs, idxs) \ {NoiseLabel}) > 0

Row(rec, folder, reason) ==
  [ file |-> Name(rec.img_path), assigned_folder |-> folder,
    face_index |-> rec.face_index, faces_in_image |-> rec.faces_in_image,
    reason |-> reason ]

\* The rows logged for the records idxs, in ascending order of index.
RowsFor(recs, idxs, folder, reason) ==
  LET is == sorted(idxs)
  IN  [ k \in DOMAIN is |-> Row(recs[is[k]], folder, reason) ]

CopyOp(r, src, folder, dst) ==
  [ run |-> r, src |-> src, bucket |-> folder, dst |-> dst ]

\* ------------------------------------------------- the per-image loop
\* A plausible slip: the copy placed inside the per-face logging loop, so
\* that it is made for every face of the person on the image, unguarded.
RECURSIVE RoutePersonsPerFace(_, _, _, _, _, _, _)
RoutePersonsPerFace(recs, labs, names, r, src, todo, st) ==
  IF todo = << >> THEN st
  ELSE
    LET lab == Head(todo)
        person_name == names[lab]
        dst == Dst(person_name, PersonDstName(src, person_name))
        mine == SelectSeq(sorted(image_indices(recs, src)), LAMBDA i : labs[i] = lab)
        RECURSIVE PerFace(_, _)
        PerFace(k, acc) ==
          IF k > Len(mine) THEN acc
          ELSE PerFace(k + 1,
                 [ acc EXCEPT !.fs = copy2(acc.fs, src, dst),
                              !.ops = Append(acc.ops, CopyOp(r, src, person_name, dst)),
                              !.log = Append(acc.log,
                                 Row(recs[mine[k]], person_name, "eligible_person_image")) ])
    IN  RoutePersonsPerFace(recs, labs, names, r, src, Tail(todo),
          PerFace(1, [ st EXCEPT !.copied = st.copied \cup {<< person_name, src >>} ]))

\* Lines 175-188: for every eligible label of the image (todo), copy the
\* image into the person's folder unless the pair was handled or the
\* destination exists, then log one row per face of that label.
\* st = [fs, copied, log, ops].
RECURSIVE RoutePersons(_, _, _, _, _, _, _)
RoutePersons(recs, labs, names, r, src, todo, st) ==
  IF todo = << >> THEN st
  ELSE
    LET lab == Head(todo)
        person_name == names[lab]
        key == << person_name, src >>
        dst == Dst(person_name, PersonDstName(src, person_name))
        handled == key \in st.copied
        doCopy == ~handled /\ ~DstExists(st.fs, dst)
        rows == RowsFor(recs, { i \in image_indices(recs, src) : labs[i] = lab },
                        person_name, "eligible_person_image")
    IN  RoutePersons(recs, labs, names, r, src, Tail(todo),
          [ fs     |-> IF doCopy THEN copy2(st.fs, src, dst) ELSE st.fs,
            copied |-> st.copied \cup {key},
            log    |-> st.log \o rows,
            ops    |-> IF doCopy
                       THEN Append(st.ops, CopyOp(r, src, person_name, dst))
                       ELSE st.ops ])

\* Which loop of route_by_clusters runs next.
Phase(cur, nimg, gleft, uleft) ==
  IF cur <= nimg THEN "route"
  ELSE IF gleft # {} THEN "flush_group"
  ELSE IF uleft # {} THEN "flush_unknown"
  ELSE "report"

\* ---------------------------------------------------------------- Init
Init ==
  /\ records \in RecordLists
  /\ labels \in LabelLists(Len(records))
  /\ group_thr \in 0..MaxThr
  /\ pc = "idle"
  /\ run = 1
  /\ dirs = {}
  /\ fs = << >>
  /\ eligible_clusters = {}
  /\ cluster_to_name = << >>
  /\ copied_person_image = {}
  /\ staged_group_only = {}
  /\ staged_unknown = {}
  /\ log = << >>
  /\ cursor = 1
  /\ flushed = {}
  /\ report = "none"
  /\ copyOps = << >>
  /\ prev = "none"
  /\ failure = << >>
  /\ OutsideIdle
  /\ img_files = << >>
  /\ sharp = << >>
  /\ detected = << >>
  /\ fcursor = 1
  /\ embeddings = << >>
  /\ min_samples = DefaultMinSamples

\* ------------------------------------------------------------- actions
\* Lines 133-165: the bucket directories, the indices, eligibility, the
\* names and the person directories, the empty dedup sets and log.
Prepare ==
  /\ pc = "idle"
  /\ LET elig == Eligible(records, labels, group_thr)
         names == ClusterToName(labels, elig)
     IN  /\ eligible_clusters' = elig
         /\ cluster_to_name' = names
         /\ dirs' = ensure_dir(ensure_dir(ensure_dir(dirs, OutDir), UnknownDir),
                               GroupOnlyDir) \cup Range(names)
  /\ copied_person_image' = {}
  /\ staged_group_only' = {}
  /\ staged_unknown' = {}
  /\ log' = << >>
  /\ cursor' = 1
  /\ flushed' = {}
  /\ pc' = Phase(1, Len(image_order(records)), {}, {})
  /\ UNCHANGED << records, labels, group_thr, run, fs, report, copyOps, prev >>
  /\ UNCHANGED << failure, pipe >>
  /\ UNCHANGED outside

\* Lines 168-204: one iteration of the per-image loop.
RouteImage ==
  /\ pc = "route"
  /\ LET src == image_order(records)[cursor]
         idxs == image_indices(records, src)
         elig_here == eligible_on_image(labels, idxs, eligible_clusters)
         inel_here == ineligible_on_image(labels, idxs, eligible_clusters)
         st == RoutePersons(records, labels, cluster_to_name, run, src,
                 sorted(elig_here),
                 [ fs |-> fs, copied |-> copied_person_image, log |-> log,
                   ops |-> copyOps ])
         grows == IF inel_here # {}
                  THEN RowsFor(records, { i \in idxs : labels[i] \in inel_here },
                               GroupOnlyDir, "group_only_person_on_image")
                  ELSE << >>
         urows == IF ~has_any_cluster(labels, idxs)
                  THEN RowsFor(records, { i \in idxs : labels[i] = NoiseLabel },
                               UnknownDir, "noise_only_image")
                  ELSE << >>
         sg == IF inel_here # {} THEN staged_group_only \cup {src}
               ELSE staged_group_only
         su == IF ~has_any_cluster(labels, idxs) THEN staged_unknown \cup {src}
               ELSE staged_unknown
     IN  /\ fs' = st.fs
         /\ copied_person_image' = st.copied
         /\ copyOps' = st.ops
         /\ log' = st.log \o grows \o urows
         /\ staged_group_only' = sg
         /\ staged_unknown' = su
         /\ cursor' = cursor + 1
         /\ pc' = Phase(cursor + 1, Len(image_order(records)), sg, su)
  /\ UNCHANGED << records, labels, group_thr, run, dirs, eligible_clusters,
                  cluster_to_name, flushed, report, prev >>
  /\ UNCHANGED << failure, pipe >>
  /\ UNCHANGED outside

\* Lines 207-210: one iteration of the loop over staged_group_only, a set,
\* whose iteration order is not fixed.
FlushGroupOnly ==
  /\ pc = "flush_group"
  /\ \E src \in staged_group_only \ flushed :
       LET dst == Dst(GroupOnlyDir, Name(src))
           doCopy == ~DstExists(fs, dst)
           done == flushed \cup {src}
       IN  /\ fs' = IF doCopy THEN copy2(fs, src, dst) ELSE fs
           /\ copyOps' = IF doCopy
                         THEN Append(copyOps, CopyOp(run, src, GroupOnlyDir, dst))
                         ELSE copyOps
           /\ flushed' = IF staged_group_only \ done = {} THEN {} ELSE done
           /\ pc' = Phase(cursor, 0, staged_group_only \ done, staged_unknown)
  /\ UNCHANGED << records, labels, group_thr, run, dirs, eligible_clusters,
                  cluster_to_name, copied_person_image, staged_group_only,
                  staged_unknown, log, cursor, report, prev >>
  /\ UNCHANGED << failure, pipe >>
  /\ UNCHANGED outside

\* Lines 211-214: one iteration of the loop over staged_unknown.
FlushUnknown ==
  /\ pc = "flush_unknown"
  /\ \E src \in staged_unknown \ flushed :
       LET dst == Dst(UnknownDir, Name(src))
           doCopy == ~DstExists(fs, dst)
           done == flushed \cup {src}
       IN  /\ fs' = IF doCopy THEN copy2(fs, src, dst) ELSE fs
           /\ copyOps' = IF doCopy
                         THEN Append(copyOps, CopyOp(run, src, UnknownDir, dst))
                         ELSE copyOps
           /\ flushed' = IF staged_unknown \ done = {} THEN {} ELSE done
           /\ pc' = Phase(cursor, 0, {}, staged_unknown \ done)
  /\ UNCHANGED << records, labels, group_thr, run, dirs, eligible_clusters,
                  cluster_to_name, copied_person_image, staged_group_only,
                  staged_unknown, log, cursor, report, prev >>
  /\ UNCHANGED << failure, pipe >>
  /\ UNCHANGED outside

\* A plausible slip: the report opened with "a".
append_report(exists, old, rows) == IF exists THEN old \o rows ELSE rows

\* Lines 218-221: open(report_path, "w") makes the file or empties the
\* one that exists; the rows of the log follow the header line.
write_report(exists, old, rows) == rows

\* Lines 216-224: the report file is opened with "w" and the log written.
SaveReport ==
  /\ pc = "report"
  /\ report' = write_report(report # "none", report, log)
  /\ pc' = "done"
  /\ UNCHANGED << records, labels, group_thr, run, dirs, fs, eligible_clusters,
                  cluster_to_name, copied_person_image, staged_group_only,
                  staged_unknown, log, cursor, flushed, copyOps, prev >>
  /\ UNCHANGED << failure, pipe >>
  /\ UNCHANGED outside

\* The program is started again with the same input and output directory.
Rerun ==
  /\ pc = "done"
  /\ run < MaxRuns
  /\ run' = run + 1
  /\ prev' = [ fs |-> fs, report |-> report ]
  /\ pc' = "idle"
  /\ UNCHANGED << records, labels, group_thr, dirs, fs, eligible_clusters,
                  cluster_to_name, copied_person_image, staged_group_only,
                  staged_unknown, log, cursor, flushed, report, copyOps >>
  /\ UNCHANGED << failure, pipe >>
  /\ UNCHANGED outside

Next ==
  \/ Prepare
  \/ RouteImage
  \/ FlushGroupOnly
  \/ FlushUnknown
  \/ SaveReport
  \/ Rerun

Spec == Init /\ [][Next]_vars

\* -------------------------------------------------------- cluster_faces
\* Face embeddings, raw: five directions 45 degrees apart, so that with
\* eps_sim = 0.55 exactly the equal and the adjacent ones are within the
\* radius (cosine 1 and 0.707 against 0 and below).
EmbeddingSeq == << << 2, 0 >>, << 1, 1 >>, << 0, 3 >>, << -1, 1 >>, << -1, 0 >> >>

Embeddings == Range(EmbeddingSeq)

\* How many faces of one run may carry each embedding of EmbeddingSeq.
Population == << 2, 1, 1, 1, 2 >>

EmbeddingLists ==
  { X \in UNION { [1..n -> Embeddings] : n \in 0..SumTo(Population, Len(Population)) } :
      \A e \in DOMAIN EmbeddingSeq :
        Cardinality({ i \in DOMAIN X : X[i] = EmbeddingSeq[e] }) <= Population[e] }

Dot(a, b) == a[1] * b[1] + a[2] * b[2]

\* Lines 111-113: after L2 normalisation the cosine distance of a and b is
\* 1 - a.b / (|a| |b|); it is within eps = 1 - eps_sim iff the cosine is
\* at least eps_sim.  Squared, to stay in the integers.
WithinEps(a, b) ==
  /\ Dot(a, b) >= 0
  /\ EpsSimDen * EpsSimDen * Dot(a, b) * Dot(a, b)
       >= EpsSimNum * EpsSimNum * Dot(a, a) * Dot(b, b)

\* DBSCAN: the points within the radius of point i, itself included
neighborhoods(X, i) == { j \in DOMAIN X : WithinEps(X[i], X[j]) }

\* A plausible slip: the point itself not counted.
is_core_others(X, ms, i) == Cardinality(neighborhoods(X, i)) - 1 >= ms

\* DBSCAN: core samples
is_core(X, ms, i) == Cardinality(neighborhoods(X, i)) >= ms

\* DBSCAN: the cluster c grown from the points of the stack; a point is
\* labelled when first reached, and only a core point pushes its
\* unlabelled neighbours.
RECURSIVE Expand(_, _, _, _, _)
Expand(X, ms, labs, stack, c) ==
  IF stack = {} THEN labs
  ELSE LET i == Min(stack)
           fresh == labs[i] = NoiseLabel
           labs1 == IF fresh THEN [ labs EXCEPT ![i] = c ] ELSE labs
           push == IF fresh /\ is_core(X, ms, i)
                   THEN { v \in neighborhoods(X, i) : labs1[v] = NoiseLabel }
                   ELSE {}
       IN  Expand(X, ms, labs1, (stack \ {i}) \cup push, c)

\* A plausible slip: every unlabelled point seeds a cluster, core or not.
RECURSIVE ScanAnySeed(_, _, _, _, _)
ScanAnySeed(X, ms, i, labs, label_num) ==
  IF i > Len(X) THEN labs
  ELSE IF labs[i] # NoiseLabel
       THEN ScanAnySeed(X, ms, i + 1, labs, label_num)
       ELSE ScanAnySeed(X, ms, i + 1, Expand(X, ms, labs, {i}, label_num),
                        label_num + 1)

\* DBSCAN: the points are visited in input order; an unlabelled core point
\* seeds the next cluster.
RECURSIVE Scan(_, _, _, _, _)
Scan(X, ms, i, labs, label_num) ==
  IF i > Len(X) THEN labs
  ELSE IF labs[i] # NoiseLabel \/ ~is_core(X, ms, i)
       THEN Scan(X, ms, i + 1, labs, label_num)
       ELSE Scan(X, ms, i + 1, Expand(X, ms, labs, {i}, label_num), label_num + 1)

\* DBSCAN(eps, min_samples, metric='cosine').fit_predict(X)
fit_predict(X, ms) == Scan(X, ms, 1, [ i \in DOMAIN X |-> NoiseLabel ], 0)

\* cluster_faces, lines 107-115
cluster_faces(X, ms) == IF X = << >> THEN << >> ELSE fit_predict(X, ms)

\* The output root and the locals of route_by_clusters before any run.
Untouched ==
  /\ group_thr = 0
  /\ run = 1
  /\ dirs = {}
  /\ fs = << >>
  /\ eligible_clusters = {}
  /\ cluster_to_name = << >>
  /\ copied_person_image = {}
  /\ staged_group_only = {}
  /\ staged_unknown = {}
  /\ log = << >>
  /\ cursor = 1
  /\ flushed = {}
  /\ report = "none"
  /\ copyOps = << >>
  /\ prev = "none"
  /\ failure = << >>
  /\ OutsideIdle

InitCluster ==
  /\ embeddings \in EmbeddingLists
  /\ min_samples \in 1..MaxMinSamples
  /\ records = << >>
  /\ labels = << >>
  /\ pc = "cluster"
  /\ img_files = << >>
  /\ sharp = << >>
  /\ detected = << >>
  /\ fcursor = 1
  /\ Untouched

\* Line 246 of main: labels = cluster_faces(records, eps_sim, min_samples)
ClusterFaces ==
  /\ pc = "cluster"
  /\ labels' = cluster_faces(embeddings, min_samples)
  /\ pc' = "clustered"
  /\ UNCHANGED << records, group_thr, run, dirs, fs, eligible_clusters,
                  cluster_to_name, copied_person_image, staged_group_only,
                  staged_unknown, log, cursor, flushed, report, copyOps, prev,
                  failure, pipe >>
  /\ UNCHANGED outside

\* cluster_faces applied to every list of embeddings.
SpecCluster == InitCluster /\ [][ClusterFaces]_vars

\* ------------------------------------------------------------- main
\* The image files of the input directory, in the order rglob yields them.
InputFileLists == { f \in FileLists : Len(f) <= MaxFiles }

\* --min-samples is parsed with type=int and not validated.
MinSamplesArgs == (0 - 1)..DefaultMinSamples

\* The embedding of the k-th face the detector finds on an image: the
\* first face of every image shows one person, the second another, ..
FaceEmbedding(k) == EmbeddingSeq[((2 * k - 2) % Len(EmbeddingSeq)) + 1]

\* A plausible slip: the blur filter switched off.
too_blurry_never(sh, k) == FALSE

\* Line 91: laplacian_variance(bgr) < blur_thr
too_blurry(sh, k) == ~sh[k]

InitPipeline ==
  /\ img_files \in InputFileLists
  /\ sharp \in [DOMAIN img_files -> BOOLEAN]
  /\ detected \in [DOMAIN img_files -> 0..MaxDetected]
  /\ min_samples \in MinSamplesArgs
  /\ group_thr \in 0..MaxThr
  /\ fcursor = 1
  /\ records = << >>
  /\ embeddings = << >>
  /\ labels = << >>
  /\ pc = "collect"
  /\ run = 1
  /\ dirs = {}
  /\ fs = << >>
  /\ eligible_clusters = {}
  /\ cluster_to_name = << >>
  /\ copied_person_image = {}
  /\ staged_group_only = {}
  /\ staged_unknown = {}
  /\ log = << >>
  /\ cursor = 1
  /\ flushed = {}
  /\ report = "none"
  /\ copyOps = << >>
  /\ prev = "none"
  /\ failure = << >>
  /\ OutsideIdle

\* Lines 87-104: one iteration of the loop of collect_faces: the image is
\* loaded; a blurred one is skipped, any other is given to the detector and
\* one FaceRec is appended per face found.
CollectImage ==
  /\ pc = "collect"
  /\ fcursor <= Len(img_files)
  /\ IF too_blurry(sharp, fcursor)
     THEN UNCHANGED << records, embeddings >>
     ELSE /\ records' = records \o FaceRecsOf(img_files[fcursor], detected[fcursor])
          /\ embeddings' = embeddings \o
                             [ k \in 1..detected[fcursor] |-> FaceEmbedding(k) ]
  /\ fcursor' = fcursor + 1
  /\ UNCHANGED << labels, group_thr, pc, run, dirs, fs, eligible_clusters,
                  cluster_to_name, copied_person_image, staged_group_only,
                  staged_unknown, log, cursor, flushed, report, copyOps, prev,
                  failure, img_files, sharp, detected, min_samples >>
  /\ UNCHANGED outside

\* Lines 242-244: "No usable faces found.", main returns.
NoUsableFaces ==
  /\ pc = "collect"
  /\ fcursor > Len(img_files)
  /\ records = << >>
  /\ pc' = "no_faces"
  /\ UNCHANGED << records, labels, group_thr, run, dirs, fs, eligible_clusters,
                  cluster_to_name, copied_person_image, staged_group_only,
                  staged_unknown, log, cursor, flushed, report, copyOps, prev,
                  failure, pipe >>
  /\ UNCHANGED outside

\* Line 246: the records are clustered, route_by_clusters is next.  A
\* DBSCAN that does not validate min_samples takes every point for a core
\* point when min_samples < 1.
ClusterRecords ==
  /\ pc = "collect"
  /\ fcursor > Len(img_files)
  /\ records # << >>
  /\ labels' = cluster_faces(embeddings, min_samples)
  /\ pc' = "idle"
  /\ UNCHANGED << records, group_thr, run, dirs, fs, eligible_clusters,
                  cluster_to_name, copied_person_image, staged_group_only,
                  staged_unknown, log, cursor, flushed, report, copyOps, prev,
                  failure, pipe >>
  /\ UNCHANGED outside

\* Lines 113-114: a DBSCAN that validates its parameters raises on
\* min_samples < 1, and main ends with the exception.
ClusterRaises ==
  /\ pc = "collect"
  /\ fcursor > Len(img_files)
  /\ records # << >>
  /\ min_samples < 1
  /\ pc' = "error"
  /\ UNCHANGED << records, labels, group_thr, run, dirs, fs, eligible_clusters,
                  cluster_to_name, copied_person_image, staged_group_only,
                  staged_unknown, log, cursor, flushed, report, copyOps, prev,
                  failure, pipe >>
  /\ UNCHANGED outside

NextPipeline ==
  \/ CollectImage
  \/ NoUsableFaces
  \/ ClusterRecords
  \/ ClusterRaises
  \/ Prepare
  \/ RouteImage
  \/ FlushGroupOnly
  \/ FlushUnknown
  \/ SaveReport

\* One run of main: collect_faces, cluster_faces, route_by_clusters.
SpecPipeline == InitPipeline /\ [][NextPipeline]_vars

\* ------------------------------------------------- concurrent runs
\* Two processes run route_by_clusters on the same records over the same
\* output root.
Procs == {1, 2}

Decision(src, folder, dst) == [ src |-> src, bucket |-> folder, dst |-> dst ]

\* Lines 175-183: the person copies the per-image loop decides on, in the
\* order of the loop, from image k on.
RECURSIVE PersonDecisions(_, _, _, _, _)
PersonDecisions(recs, labs, elig, names, k) ==
  IF k > Len(image_order(recs)) THEN << >>
  ELSE LET src == image_order(recs)[k]
           todo == sorted(eligible_on_image(labs, image_indices(recs, src), elig))
       IN  [ n \in DOMAIN todo |->
               Decision(src, names[todo[n]],
                        Dst(names[todo[n]], PersonDstName(src, names[todo[n]]))) ]
           \o PersonDecisions(recs, labs, elig, names, k + 1)

\* Lines 191-192 and 199-200: the images the loop stages.
StagedGroupOnly(recs, labs, elig) ==
  { src \in Range(image_order(recs)) :
      ineligible_on_image(labs, image_indices(recs, src), elig) # {} }

StagedUnknown(recs, labs) ==
  { src \in Range(image_order(recs)) :
      ~has_any_cluster(labs, image_indices(recs, src)) }

\* Lines 185-204: the rows the per-image loop logs, from image k on.
RECURSIVE LogOf(_, _, _, _, _)
LogOf(recs, labs, elig, names, k) ==
  IF k > Len(image_order(recs)) THEN << >>
  ELSE LET src == image_order(recs)[k]
           idxs == image_indices(recs, src)
           inel_here == ineligible_on_image(labs, idxs, elig)
           st == RoutePersons(recs, labs, names, 0, src,
                   sorted(eligible_on_image(labs, idxs, elig)),
                   [ fs |-> << >>, copied |-> {}, log |-> << >>, ops |-> << >> ])
           grows == IF inel_here # {}
                    THEN RowsFor(recs, { i \in idxs : labs[i] \in inel_here },
                                 GroupOnlyDir, "group_only_person_on_image")
                    ELSE << >>
           urows == IF ~has_any_cluster(labs, idxs)
                    THEN RowsFor(recs, { i \in idxs : labs[i] = NoiseLabel },
                                 UnknownDir, "noise_only_image")
                    ELSE << >>
       IN  st.log \o grows \o urows \o LogOf(recs, labs, elig, names, k + 1)

InitConcurrent ==
  /\ records \in { r \in RecordLists : Len(r) <= MaxSharedFaces }
  /\ labels \in LabelLists(Len(records))
  /\ group_thr \in 0..1
  /\ pc = "concurrent"
  /\ procs = [ p \in Procs |->
                 [ at |-> "start", persons |-> << >>, group |-> {}, unknown |-> {},
                   cur |-> << >>, raced |-> {} ] ]
  /\ run = 1
  /\ dirs = {}
  /\ fs = << >>
  /\ eligible_clusters = {}
  /\ cluster_to_name = << >>
  /\ copied_person_image = {}
  /\ staged_group_only = {}
  /\ staged_unknown = {}
  /\ log = << >>
  /\ cursor = 1
  /\ flushed = {}
  /\ report = "none"
  /\ copyOps = << >>
  /\ prev = "none"
  /\ failure = << >>
  /\ img_files = << >>
  /\ sharp = << >>
  /\ detected = << >>
  /\ fcursor = 1
  /\ embeddings = << >>
  /\ min_samples = DefaultMinSamples
  /\ SessionIdle

\* what a step of a concurrent run leaves alone
ProcFrame ==
  UNCHANGED << records, labels, group_thr, pc, run, eligible_clusters,
               cluster_to_name, copied_person_image, staged_group_only,
               staged_unknown, log, cursor, flushed, prev, failure, pipe,
               processing_queue, current_processing, processing_status,
               processing_state, input_dir, auto_start_processing, processed >>

\* Lines 133-165 in process p: the directories (mkdir with exist_ok), and
\* the decisions its loops are going to take.
ProcPrepare(p) ==
  /\ procs[p].at = "start"
  /\ LET elig == Eligible(records, labels, group_thr)
         names == ClusterToName(labels, elig)
     IN  /\ dirs' = ensure_dir(ensure_dir(ensure_dir(dirs, OutDir), UnknownDir),
                               GroupOnlyDir) \cup Range(names)
         /\ procs' = [ procs EXCEPT ![p] =
                         [ @ EXCEPT !.at = "check",
                                    !.persons = PersonDecisions(records, labels, elig, names, 1),
                                    !.group = StagedGroupOnly(records, labels, elig),
                                    !.unknown = StagedUnknown(records, labels) ] ]
  /\ UNCHANGED << fs, copyOps, report >>
  /\ ProcFrame

\* the decisions process p may take next: the head of the per-image loop,
\* then any staged group image, then any staged unknown image
NextDecisions(p) ==
  IF procs[p].persons # << >> THEN { Head(procs[p].persons) }
  ELSE IF procs[p].group # {}
  THEN { Decision(src, GroupOnlyDir, Dst(GroupOnlyDir, Name(src))) : src \in procs[p].group }
  ELSE { Decision(src, UnknownDir, Dst(UnknownDir, Name(src))) : src \in procs[p].unknown }

\* the decisions of p without d
Taken(p, d) ==
  IF procs[p].persons # << >> THEN [ procs[p] EXCEPT !.persons = Tail(@) ]
  ELSE IF procs[p].group # {} THEN [ procs[p] EXCEPT !.group = @ \ {d.src} ]
  ELSE [ procs[p] EXCEPT !.unknown = @ \ {d.src} ]

\* Lines 181, 209, 213 in process p: dst.exists() and dst.is_file()
ProcCheck(p) ==
  /\ procs[p].at = "check"
  /\ \E d \in NextDecisions(p) :
       procs' = [ procs EXCEPT ![p] =
                    IF DstExists(fs, d.dst) THEN Taken(p, d)
                    ELSE [ Taken(p, d) EXCEPT !.at = "copy", !.cur = d ] ]
  /\ UNCHANGED << dirs, fs, copyOps, report >>
  /\ ProcFrame

\* Lines 182, 210, 214 in process p: shutil.copy2(src, dst)
ProcCopy(p) ==
  /\ procs[p].at = "copy"
  /\ LET d == procs[p].cur
     IN  /\ fs' = copy2(fs, d.src, d.dst)
         /\ copyOps' = Append(copyOps, CopyOp(p, d.src, d.bucket, d.dst))
         /\ procs' = [ procs EXCEPT ![p] =
                         [ @ EXCEPT !.at = "check", !.cur = << >>,
                                    !.raced = IF DstExists(fs, d.dst)
                                              THEN @ \cup {d.dst} ELSE @ ] ]
  /\ UNCHANGED << dirs, report >>
  /\ ProcFrame

\* Lines 216-224 in process p: the report is written, the run returns.
ProcReport(p) ==
  /\ procs[p].at = "check"
  /\ NextDecisions(p) = {}
  /\ LET elig == Eligible(records, labels, group_thr)
         names == ClusterToName(labels, elig)
     IN  report' = write_report(report # "none", report,
                                LogOf(records, labels, elig, names, 1))
  /\ procs' = [ procs EXCEPT ![p] = [ @ EXCEPT !.at = "done" ] ]
  /\ UNCHANGED << dirs, fs, copyOps >>
  /\ ProcFrame

NextConcurrent ==
  \E p \in Procs :
    \/ ProcPrepare(p)
    \/ ProcCheck(p)
    \/ ProcCopy(p)
    \/ ProcReport(p)

\* Two runs of route_by_clusters, their steps interleaved.
SpecConcurrent == InitConcurrent /\ [][NextConcurrent]_vars

\* ------------------------------------------------- the app session
\* The folders the user can pick; each holds one image x.jpg, on which
\* the detector finds one face or none.
Folders == {"A", "B"}

FolderFaces == {0, 1}

\* the parameters of the session, << min_samples, group_thr >>: the face
\* of an image is a person of its own, a group-only cluster, or noise
AppParams == { << 1, 1 >>, << 1, 0 >>, << 2, 1 >> }

\* scan_folder_for_images, line 1044: the copy of the folder's image in the
\* temp dir, f"{stem}_{hash(str(src_file))}{suffix}"; the folder stands for
\* the hash of the source path.
ScannedFile(folder) ==
  [ dir |-> "temp", stem |-> << "x", "_", folder >>, suffix |-> ".jpg" ]

\* the folder an image of the temp dir was copied from
Origin(src) == src.stem[3]

\* list.remove(x): s without the first occurrence of x
RemoveFirst(s, x) ==
  LET i == Min({ k \in DOMAIN s : s[k] = x })
  IN  SubSeq(s, 1, i - 1) \o SubSeq(s, i + 1, Len(s))

\* A plausible slip: the test "not in processing_queue" left out.
append_always(queue, folder_path) == Append(queue, folder_path)

\* add_to_queue, lines 483-484
append_once(queue, folder_path) ==
  IF folder_path \notin Range(queue) THEN Append(queue, folder_path) ELSE queue

InitApp ==
  /\ \E prm \in AppParams : min_samples = prm[1] /\ group_thr = prm[2]
  /\ pc = "app"
  /\ records = << >>
  /\ labels = << >>
  /\ embeddings = << >>
  /\ img_files = << >>
  /\ sharp = << >>
  /\ detected = << >>
  /\ fcursor = 1
  /\ run = 1
  /\ dirs = {}
  /\ fs = << >>
  /\ eligible_clusters = {}
  /\ cluster_to_name = << >>
  /\ copied_person_image = {}
  /\ staged_group_only = {}
  /\ staged_unknown = {}
  /\ log = << >>
  /\ cursor = 1
  /\ flushed = {}
  /\ report = "none"
  /\ copyOps = << >>
  /\ prev = "none"
  /\ failure = << >>
  /\ OutsideIdle

\* the engine's state, which the buttons of the session leave alone
engine == << records, labels, group_thr, run, dirs, fs, eligible_clusters,
             cluster_to_name, copied_person_image, staged_group_only,
             staged_unknown, log, cursor, flushed, report, copyOps, prev,
             failure, embeddings, fcursor, min_samples, procs >>

\* scan_folder_for_images, lines 991-1064: the temp dir is emptied and
\* filled with the images of the folder, and becomes input_dir; the button
\* at lines 609-614 also asks for processing to start.
ScanFolder(folder, faces, start) ==
  /\ pc = "app"
  /\ input_dir' = folder
  /\ img_files' = << ScannedFile(folder) >>
  /\ sharp' = << TRUE >>
  /\ detected' = << faces >>
  /\ auto_start_processing' = (auto_start_processing \/ start)
  /\ UNCHANGED << pc, engine, processing_queue, current_processing,
                  processing_status, processing_state, processed >>

\* add_to_queue, lines 481-492
AddToQueue(folder) ==
  /\ pc = "app"
  /\ processing_queue' = append_once(processing_queue, folder)
  /\ UNCHANGED << pc, engine, img_files, sharp, detected, current_processing,
                  processing_status, processing_state, input_dir,
                  auto_start_processing, processed >>

\* show_processing_queue, lines 452-454: processing_queue.pop(i)
RemoveFromQueue(i) ==
  /\ pc = "app"
  /\ i \in DOMAIN processing_queue
  /\ processing_queue' = SubSeq(processing_queue, 1, i - 1)
                           \o SubSeq(processing_queue, i + 1, Len(processing_queue))
  /\ UNCHANGED << pc, engine, img_files, sharp, detected, current_processing,
                  processing_status, processing_state, input_dir,
                  auto_start_processing, processed >>

\* show_processing_queue, lines 462-464
ClearQueue ==
  /\ pc = "app"
  /\ processing_queue # << >>
  /\ processing_queue' = << >>
  /\ UNCHANGED << pc, engine, img_files, sharp, detected, current_processing,
                  processing_status, processing_state, input_dir,
                  auto_start_processing, processed >>

\* Lines 459-460 and start_queue_processing, lines 494-500
StartQueue ==
  /\ pc = "app"
  /\ processing_queue # << >>
  /\ processing_status # "processing"
  /\ current_processing' = processing_queue[1]
  /\ processing_status' = "processing"
  /\ UNCHANGED << pc, engine, img_files, sharp, detected, processing_queue,
                  processing_state, input_dir, auto_start_processing, processed >>

\* show_processing_queue, lines 421-428: pause and resume
PauseResume ==
  /\ pc = "app"
  /\ current_processing # "None"
  /\ processing_status \in {"processing", "paused"}
  /\ processing_status' = IF processing_status = "processing" THEN "paused"
                          ELSE "processing"
  /\ UNCHANGED << pc, engine, img_files, sharp, detected, processing_queue,
                  current_processing, processing_state, input_dir,
                  auto_start_processing, processed >>

\* show_processing_queue, lines 431-434: stop
StopQueue ==
  /\ pc = "app"
  /\ current_processing # "None"
  /\ processing_status' = "idle"
  /\ current_processing' = "None"
  /\ UNCHANGED << pc, engine, img_files, sharp, detected, processing_queue,
                  processing_state, input_dir, auto_start_processing, processed >>

\* show_processing_tab, lines 1267-1270: the stop button
StopProcessing ==
  /\ pc = "app"
  /\ input_dir # "None"
  /\ ~auto_start_processing
  /\ processing_state = "processing"
  /\ processing_state' = "idle"
  /\ UNCHANGED << pc, engine, img_files, sharp, detected, processing_queue,
                  current_processing, processing_status, input_dir,
                  auto_start_processing, processed >>

\* show_processing_tab, lines 1219-1281: process_images is called when
\* files were loaded and either auto_start_processing is set or the start
\* or restart button is pressed.
MayProcess ==
  /\ pc = "app"
  /\ run <= MaxJobs
  /\ input_dir # "None"
  /\ auto_start_processing \/ processing_state \in {"idle", "completed", "error"}

\* the entry of the history for the call that begins
Call ==
  [ current |-> current_processing, input |-> input_dir,
    queued |-> current_processing \in Range(processing_queue),
    state |-> "running", removed |-> FALSE ]

\* the call has returned with processing_state st
Return(call, st, gone) ==
  << [ call EXCEPT !.state = st, !.removed = gone ] >>

\* process_images, lines 1286-1353: collect_faces on input_dir; with no
\* record the function returns at line 1341, else the records are
\* clustered and route_by_clusters is entered with the output directory of
\* the session.
ProcessImages ==
  /\ MayProcess
  /\ auto_start_processing' = FALSE
  /\ LET recs == collect_faces(img_files, detected, 1)
         embs == [ i \in DOMAIN recs |-> FaceEmbedding(recs[i].face_index + 1) ]
     IN  /\ records' = recs
         /\ embeddings' = embs
         /\ processing_state' = "processing"
         /\ dirs' = ensure_dir(dirs, OutDir)
         /\ IF recs = << >>
            THEN /\ processed' = Return(Call, "processing", FALSE)
                 /\ run' = run + 1
                 /\ pc' = "app"
                 /\ UNCHANGED << labels, prev >>
            ELSE /\ processed' = << Call >>
                 /\ labels' = cluster_faces(embs, min_samples)
                 /\ prev' = [ fs |-> fs, report |-> report ]
                 /\ pc' = "idle"
                 /\ UNCHANGED run
  /\ UNCHANGED << group_thr, fs, eligible_clusters, cluster_to_name,
                  copied_person_image, staged_group_only, staged_unknown, log,
                  cursor, flushed, report, copyOps, failure, img_files, sharp,
                  detected, fcursor, min_samples, procs, processing_queue,
                  current_processing, processing_status, input_dir >>

\* process_images, lines 1386-1391: an exception of the engine is caught
\* and processing_state becomes 'error'.
ProcessImagesRaises ==
  /\ MayProcess
  /\ auto_start_processing' = FALSE
  /\ processing_state' = "error"
  /\ dirs' = ensure_dir(dirs, OutDir)
  /\ processed' = Return(Call, "error", FALSE)
  /\ run' = run + 1
  /\ UNCHANGED << pc, records, labels, group_thr, fs, eligible_clusters,
                  cluster_to_name, copied_person_image, staged_group_only,
                  staged_unknown, log, cursor, flushed, report, copyOps, prev,
                  failure, pipe, procs, processing_queue, current_processing,
                  processing_status, input_dir >>

\* process_images, lines 1355-1384, with process_next_in_queue, lines
\* 502-527: route_by_clusters has returned; the state is 'completed', the
\* current folder leaves the queue, and either the next folder is scanned
\* into the temp dir or the queue run ends.
ProcessImagesDone ==
  /\ pc = "done"
  /\ processed # << >>
  /\ LET gone == /\ current_processing # "None"
                 /\ current_processing \in Range(processing_queue)
         queue == IF gone THEN RemoveFirst(processing_queue, current_processing)
                  ELSE processing_queue
     IN  /\ processing_queue' = queue
         /\ processed' = Return(processed[1], "completed", gone)
         /\ IF queue # << >> /\ processing_status = "processing"
            THEN /\ current_processing' = queue[1]
                 /\ input_dir' = queue[1]
                 /\ img_files' = << ScannedFile(queue[1]) >>
                 /\ sharp' = << TRUE >>
                 /\ detected' \in { << faces >> : faces \in FolderFaces }
                 /\ auto_start_processing' = TRUE
                 /\ UNCHANGED processing_status
            ELSE /\ current_processing' = "None"
                 /\ processing_status' = "idle"
                 /\ UNCHANGED << input_dir, img_files, sharp, detected,
                                 auto_start_processing >>
  /\ processing_state' = "completed"
  /\ run' = run + 1
  /\ pc' = "app"
  /\ UNCHANGED << records, labels, group_thr, dirs, fs, eligible_clusters,
                  cluster_to_name, copied_person_image, staged_group_only,
                  staged_unknown, log, cursor, flushed, report, copyOps, prev,
                  failure, embeddings, fcursor, min_samples, procs >>

NextApp ==
  \/ \E folder \in Folders : \E faces \in FolderFaces : \E start \in BOOLEAN :
       ScanFolder(folder, faces, start)
  \/ \E folder \in Folders : AddToQueue(folder)
  \/ \E i \in 1..Cardinality(Folders) : RemoveFromQueue(i)
  \/ ClearQueue
  \/ StartQueue
  \/ PauseResume
  \/ StopQueue
  \/ StopProcessing
  \/ ProcessImages
  \/ ProcessImagesRaises
  \/ Prepare
  \/ RouteImage
  \/ FlushGroupOnly
  \/ FlushUnknown
  \/ SaveReport
  \/ ProcessImagesDone

\* One session of the app: the buttons of the queue and of the processing
\* tab, and process_images around the engine.
SpecApp == InitApp /\ [][NextApp]_vars

\* ------------------------------------------ copies that raise
\* route_by_clusters calls shutil.copy2 outside any try block: when the
\* call raises (a permission error, a full disk), the exception leaves
\* route_by_clusters at once; main lets it end the program and
\* process_images (app.py:1386-1391) turns it into processing_state =
\* 'error'.  Neither the remaining loops nor the report are reached.

\* Line 182 raises for one of the eligible labels of the image.
RouteImageFail ==
  /\ pc = "route"
  /\ LET src == image_order(records)[cursor]
         idxs == image_indices(records, src)
         todo == sorted(eligible_on_image(labels, idxs, eligible_clusters))
     IN  \E k \in DOMAIN todo :
           LET st == RoutePersons(records, labels, cluster_to_name, run, src,
                       SubSeq(todo, 1, k - 1),
                       [ fs |-> fs, copied |-> copied_person_image, log |-> log,
                         ops |-> copyOps ])
               person_name == cluster_to_name[todo[k]]
               dst == Dst(person_name, PersonDstName(src, person_name))
           IN  /\ << person_name, src >> \notin st.copied
               /\ ~DstExists(st.fs, dst)
               /\ fs' = st.fs
               /\ copied_person_image' = st.copied
               /\ log' = st.log
               /\ copyOps' = st.ops
               /\ failure' = << CopyOp(run, src, person_name, dst) >>
  /\ pc' = "aborted"
  /\ UNCHANGED << records, labels, group_thr, run, dirs, eligible_clusters,
                  cluster_to_name, staged_group_only, staged_unknown, cursor,
                  flushed, report, prev, pipe >>
  /\ UNCHANGED outside

\* Line 210 raises.
FlushGroupOnlyFail ==
  /\ pc = "flush_group"
  /\ \E src \in staged_group_only \ flushed :
       LET dst == Dst(GroupOnlyDir, Name(src))
       IN  /\ ~DstExists(fs, dst)
           /\ failure' = << CopyOp(run, src, GroupOnlyDir, dst) >>
  /\ pc' = "aborted"
  /\ UNCHANGED << records, labels, group_thr, run, dirs, fs, eligible_clusters,
                  cluster_to_name, copied_person_image, staged_group_only,
                  staged_unknown, log, cursor, flushed, report, copyOps, prev,
                  pipe >>
  /\ UNCHANGED outside

\* Line 214 raises.
FlushUnknownFail ==
  /\ pc = "flush_unknown"
  /\ \E src \in staged_unknown \ flushed :
       LET dst == Dst(UnknownDir, Name(src))
       IN  /\ ~DstExists(fs, dst)
           /\ failure' = << CopyOp(run, src, UnknownDir, dst) >>
  /\ pc' = "aborted"
  /\ UNCHANGED << records, labels, group_thr, run, dirs, fs, eligible_clusters,
                  cluster_to_name, copied_person_image, staged_group_only,
                  staged_unknown, log, cursor, flushed, report, copyOps, prev,
                  pipe >>
  /\ UNCHANGED outside

NextFail ==
  \/ Next
  \/ RouteImageFail
  \/ FlushGroupOnlyFail
  \/ FlushUnknownFail

\* Runs of route_by_clusters in which a copy may raise.
SpecFail == Init /\ [][NextFail]_vars

\* ------------------------------------------------ vocabulary of the claims
Images == { records[i].img_path : i \in DOMAIN records }

FacesOf(src) == { i \in DOMAIN records : records[i].img_path = src }

\* the destination of src in a bucket
DstIn(src, folder) ==
  IF folder \in {UnknownDir, GroupOnlyDir}
  THEN << folder, Name(src) >>
  ELSE << folder, PersonDstName(src, folder) >>

\* src is present in the bucket: its destination holds its content
Placed(src, folder) ==
  /\ DstIn(src, folder) \in DOMAIN fs
  /\ fs[DstIn(src, folder)] = src

PersonFolders == Range(cluster_to_name)

InPerson(src) == \E f \in PersonFolders : Placed(src, f)
InGroupOnly(src) == Placed(src, GroupOnlyDir)
InUnknown(src) == Placed(src, UnknownDir)

\* the copies of run r that took src into the bucket
Copies(r, src, folder) ==
  { k \in DOMAIN copyOps :
      copyOps[k].run = r /\ copyOps[k].src = src /\ copyOps[k].bucket = folder }

\* the faces of src whose label is a cluster with a personal image / without
EligibleFaces(src) ==
  { i \in FacesOf(src) :
      /\ labels[i] # NoiseLabel
      /\ \E j \in DOMAIN records :
           labels[j] = labels[i] /\ records[j].faces_in_image <= group_thr }

IneligibleFaces(src) ==
  { i \in FacesOf(src) :
      /\ labels[i] # NoiseLabel
      /\ \A j \in DOMAIN records :
           labels[j] = labels[i] => records[j].faces_in_image > group_thr }

\* ------------------------------------------------------------------ C1
\* C1: in one run, no pair (source image, destination bucket) is the
\* object of more than one physical copy.
C1_AtMostOneCopy ==
  \A j, k \in DOMAIN copyOps :
    ( /\ copyOps[j].run = copyOps[k].run
      /\ copyOps[j].src = copyOps[k].src
      /\ copyOps[j].bucket = copyOps[k].bucket ) => j = k

\* An image was copied into a bucket that two of its faces trigger.
C1_Witness ==
  \E k \in DOMAIN copyOps :
    LET op == copyOps[k]
    IN  \/ /\ op.bucket = GroupOnlyDir
           /\ Cardinality(IneligibleFaces(op.src)) >= 2
        \/ /\ op.bucket = UnknownDir
           /\ Cardinality(FacesOf(op.src)) >= 2
        \/ /\ op.bucket \in PersonFolders
           /\ \E a, b \in EligibleFaces(op.src) :
                a # b /\ labels[a] = labels[b] /\ cluster_to_name[labels[a]] = op.bucket

\* ------------------------------------------------------------------ C2
\* C2: a label is in eligible_clusters iff it is not the noise label and
\* the least faces_in_image over its records is <= group_thr.
C2_Eligibility ==
  pc # "idle" =>
    /\ eligible_clusters \subseteq Range(labels)
    /\ \A lab \in Range(labels) :
         lab \in eligible_clusters <=>
           ( /\ lab # NoiseLabel
             /\ Min({ records[i].faces_in_image :
                        i \in { j \in DOMAIN labels : labels[j] = lab } }) <= group_thr )

\* A cluster is eligible exactly at the boundary while a noise face sits on
\* a personal image.
C2_Witness ==
  /\ pc # "idle"
  /\ \E lab \in eligible_clusters :
       Min({ records[i].faces_in_image :
               i \in { j \in DOMAIN labels : labels[j] = lab } }) = group_thr
  /\ \E i \in DOMAIN labels :
       labels[i] = NoiseLabel /\ records[i].faces_in_image <= group_thr

\* ------------------------------------------------------------------ C3
\* C3: when the run is over, every image with a face record is present in
\* at least one bucket.
C3_Coverage ==
  pc = "done" =>
    \A src \in Images : InPerson(src) \/ InGroupOnly(src) \/ InUnknown(src)

C5_Idempotent ==
  run > 1 =>
    /\ \A k \in DOMAIN copyOps : copyOps[k].run = 1
    /\ fs = prev.fs
    /\ pc = "done" => report = prev.report

\* The second run is over, after a first run that copied and logged.
C5_Witness ==
  /\ run = 2
  /\ pc = "done"
  /\ Len(copyOps) >= 2
  /\ Len(report) >= 2
  /\ staged_group_only # {}

\* ------------------------------------------------------------------ C6
\* the number of eligible labels below cl
RankOf(cl) == Cardinality({ c \in eligible_clusters : c < cl })

\* C6: cluster_to_name maps the eligible labels one-to-one onto person_000
\* .. person_(k-1), the N-th smallest label to the N-th name, names no
\* other label, and the person directories are exactly these names.
C6_Naming ==
  pc # "idle" =>
    LET k == Cardinality(eligible_clusters)
        nth(n) == << "person_", 0, 0, n >>
    IN  /\ DOMAIN cluster_to_name = eligible_clusters
        /\ NoiseLabel \notin DOMAIN cluster_to_name
        /\ \A cl \in eligible_clusters : cluster_to_name[cl] = nth(RankOf(cl))
        /\ \A a, b \in eligible_clusters :
             cluster_to_name[a] = cluster_to_name[b] => a = b
        /\ Range(cluster_to_name) = { nth(n) : n \in 0..(k - 1) }
        /\ dirs \ {OutDir, UnknownDir, GroupOnlyDir} = { nth(n) : n \in 0..(k - 1) }

\* Label 0 is ineligible, so that the first name goes to a label that is
\* not 0, while another label has no name.
C6_Witness ==
  /\ pc = "done"
  /\ 0 \in Range(labels) \ eligible_clusters
  /\ \E cl \in eligible_clusters : cl > 0 /\ cluster_to_name[cl] = << "person_", 0, 0, 0 >>

\* ------------------------------------------------------------------ C7
\* the orders of a list of n records
RecordOrders(n) == Permutations(1..n)

Permuted(s, p) == [ k \in DOMAIN s |-> s[p[k]] ]

\* C7: the name mapping of the run equals the one route_by_clusters
\* computes for every permutation of the record list, labels permuted
\* along.
C7_OrderFree ==
  (pc # "idle" /\ cursor = 1) =>
    \A p \in RecordOrders(Len(records)) :
      ClusterToName(Permuted(labels, p),
                    Eligible(Permuted(records, p), Permuted(labels, p), group_thr))
        = cluster_to_name

\* Two clusters are named and the larger label comes first in the list.
C7_Witness ==
  /\ pc # "idle"
  /\ cursor = 1
  /\ Cardinality(eligible_clusters) >= 2
  /\ labels[1] > labels[2]
  /\ labels[2] # NoiseLabel

\* ------------------------------------------------------------------ C8
\* C8: in a run against an empty root, every image is copied exactly once
\* into the folder of every eligible cluster on it, and into no other
\* person folder.
C8_PersonCopies ==
  (run = 1 /\ pc = "done") =>
    \A src \in Images : \A cl \in eligible_clusters :
      Cardinality(Copies(1, src, cluster_to_name[cl])) =
        IF \E i \in FacesOf(src) : labels[i] = cl THEN 1 ELSE 0

\* ------------------------------------------------------------------ C9
\* C9: in a run against an empty root, an image is copied into
\* __group_only__, once and under its own file name, iff a non-noise
\* ineligible label is on it.
C9_GroupOnlyCopies ==
  (run = 1 /\ pc = "done") =>
    \A src \in Images :
      /\ Cardinality(Copies(1, src, GroupOnlyDir)) =
           IF IneligibleFaces(src) # {} THEN 1 ELSE 0
      /\ \A k \in Copies(1, src, GroupOnlyDir) :
           copyOps[k].dst = << GroupOnlyDir, Name(src) >>

\* ----------------------------------------------------------------- C10
\* C10 as stated: an image present in __group_only__ has no face of an
\* eligible cluster.
C10_OnlyIneligible ==
  \A src \in Images : InGroupOnly(src) => EligibleFaces(src) = {}

\* C10 as amended: an image present in __group_only__ has a face of a
\* non-noise ineligible cluster.
C10_SomeIneligible ==
  \A src \in Images : InGroupOnly(src) => IneligibleFaces(src) # {}

\* An image of __group_only__ carries an eligible cluster too.
C10_Witness ==
  /\ pc = "done"
  /\ \E src \in Images : InGroupOnly(src) /\ EligibleFaces(src) # {}

\* ----------------------------------------------------------------- C11
NoiseOnly(src) == \A i \in FacesOf(src) : labels[i] = NoiseLabel

\* C11: in a run against an empty root, an image is copied into
\* __unknown__ iff all its faces are noise, and then once and into no
\* other bucket.
C11_UnknownCopies ==
  (run = 1 /\ pc = "done") =>
    \A src \in Images :
      /\ Cardinality(Copies(1, src, UnknownDir)) = IF NoiseOnly(src) THEN 1 ELSE 0
      /\ NoiseOnly(src) =>
           \A k \in DOMAIN copyOps :
             copyOps[k].src = src => copyOps[k].bucket = UnknownDir

\* ----------------------------------------------------------------- C12
\* the run of main has returned
Returned == pc \in {"done", "no_faces"}

\* C12: when main, started with a valid min_samples, has returned, every
\* image that passed the blur filter and on which no face was detected
\* has one copy in __unknown__.
C12_ZeroFacesToUnknown ==
  (Returned /\ min_samples >= 1) =>
    \A k \in DOMAIN img_files :
      (sharp[k] /\ detected[k] = 0) =>
        Cardinality(Copies(run, img_files[k], UnknownDir)) = 1

Ended == pc \in {"done", "aborted"}

\* C14: a run in which one copy failed still visits every image, finishes
\* both flush loops and writes the report.
C14_FailureTolerated ==
  (Ended /\ failure # << >>) =>
    /\ pc = "done"
    /\ cursor > Len(image_order(records))
    /\ report = log

\* ----------------------------------------------------------------- C15
\* C15: the report written by a run in which a copy failed holds the rows
\* of the decision whose copy failed and every row logged before it.
C15_FailedDecisionLogged ==
  (Ended /\ failure # << >>) =>
    /\ pc = "done"
    /\ \E k \in DOMAIN report :
         /\ report[k].file = Name(failure[1].src)
         /\ report[k].assigned_folder = failure[1].bucket
    /\ \A k \in DOMAIN log : \E j \in DOMAIN report : report[j] = log[k]

\* ----------------------------------------------------------------- C16
\* C16: a run started with min_samples < 1 has decoded no image, extracted
\* no face, clustered nothing and made no directory.
C16_FailFast ==
  min_samples < 1 =>
    /\ fcursor = 1
    /\ records = << >>
    /\ labels = << >>
    /\ dirs = {}

Blurred == { k \in DOMAIN img_files : ~sharp[k] }

\* C18: a blurred image has no record, no copy and is not staged, no file
\* of the output holds it, and every row is the row of a record; the loop
\* goes on to the end of the file list, every other image visited has one
\* record per detected face, and those with a face have a row in the
\* report.
C18_BlurSkipped ==
  /\ \A k \in Blurred :
       /\ FacesOf(img_files[k]) = {}
       /\ \A j \in DOMAIN copyOps : copyOps[j].src # img_files[k]
       /\ \A dst \in DOMAIN fs : fs[dst] # img_files[k]
       /\ img_files[k] \notin staged_unknown \cup staged_group_only
       /\ (\A j \in DOMAIN img_files \ {k} : Name(img_files[j]) # Name(img_files[k]))
            => \A j \in DOMAIN log : log[j].file # Name(img_files[k])
  /\ \A j \in DOMAIN log : \E i \in DOMAIN records :
       /\ log[j].file = Name(records[i].img_path)
       /\ log[j].face_index = records[i].face_index
  /\ pc # "collect" => fcursor > Len(img_files)
  /\ \A k \in DOMAIN img_files \ Blurred :
       k < fcursor => Cardinality(FacesOf(img_files[k])) = detected[k]
  /\ pc = "done" =>
       \A k \in DOMAIN img_files \ Blurred :
         detected[k] > 0 => \E j \in DOMAIN report : report[j].file = Name(img_files[k])

\* A run has ended in which a blurred image with a face came before a
\* sharp image with a face.
C18_Witness ==
  /\ pc = "done"
  /\ \E k \in Blurred : \E j \in DOMAIN img_files \ Blurred :
       k < j /\ detected[k] > 0 /\ detected[j] > 0

\* ----------------------------------------------------------------- C19
\* the faces within the radius of face i, itself included
Near(i) == { j \in DOMAIN embeddings : WithinEps(embeddings[i], embeddings[j]) }

\* face i is a core face
CoreFace(i) == Cardinality(Near(i)) >= min_samples

CoreFaces == { i \in DOMAIN embeddings : CoreFace(i) }

\* The place of face i when the faces are put in the order of EmbeddingSeq,
\* equal embeddings in their input order.
CanonPos(i) ==
  LET key(k) == IndexOf(EmbeddingSeq, embeddings[k])
  IN  Cardinality({ j \in DOMAIN embeddings :
                      key(j) < key(i) \/ (key(j) = key(i) /\ j <= i) })

\* the same embeddings, permuted into that order
Canon ==
  [ k \in DOMAIN embeddings |->
      embeddings[CHOOSE i \in DOMAIN embeddings : CanonPos(i) = k] ]

\* the label each face gets when the permuted list is clustered
CanonLabels ==
  LET cl == cluster_faces(Canon, min_samples)
  IN  [ i \in DOMAIN embeddings |-> cl[CanonPos(i)] ]

\* C19: clustering a permutation of the records gives the same partition
\* into clusters and noise, border faces included.
C19_PartitionOrderFree ==
  pc = "clustered" =>
    LET cl == CanonLabels
    IN  \A i, j \in DOMAIN embeddings :
          (labels[i] = labels[j]) <=> (cl[i] = cl[j])

\* C19 as amended: in every order the same faces are noise, the same core
\* faces are together, and a non-core face whose core neighbours are all
\* in one cluster is with them; a non-core face near core faces of two
\* clusters is with one of them.
C19_CoreOrderFree ==
  pc = "clustered" =>
    LET cl == CanonLabels
    IN  /\ \A i \in DOMAIN embeddings :
             (labels[i] = NoiseLabel) <=> (cl[i] = NoiseLabel)
        /\ \A i, j \in CoreFaces : (labels[i] = labels[j]) <=> (cl[i] = cl[j])
        /\ \A i \in DOMAIN embeddings \ CoreFaces :
             LET cores == Near(i) \cap CoreFaces
             IN  /\ cores # {} => \E j \in cores : labels[i] = labels[j]
                 /\ (\A j, k \in cores : cl[j] = cl[k]) =>
                      \A j \in CoreFaces :
                        (labels[i] = labels[j]) <=> (cl[i] = cl[j])

\* A non-core face near core faces of two clusters was clustered, in an
\* order that is not the order of EmbeddingSeq.
C19_Witness ==
  /\ pc = "clustered"
  /\ embeddings # Canon
  /\ \E i \in DOMAIN embeddings \ CoreFaces :
       \E j, k \in Near(i) \cap CoreFaces : labels[j] # labels[k]

\* ----------------------------------------------------------------- C20
\* C20: one label per record, label i for record i: a face is noise iff
\* no core face is within the radius of it; a clustered face carries the
\* label of a core face within its radius; core faces within the radius
\* of each other carry one label; with min_samples = 1 nothing is noise.
C20_LabelPerRecord ==
  pc = "clustered" =>
    /\ DOMAIN labels = DOMAIN embeddings
    /\ \A i \in DOMAIN embeddings :
         /\ (labels[i] = NoiseLabel) <=> (Near(i) \cap CoreFaces = {})
         /\ labels[i] # NoiseLabel =>
              \E j \in Near(i) \cap CoreFaces : labels[j] = labels[i]
         /\ CoreFace(i) => \A j \in Near(i) \cap CoreFaces : labels[j] = labels[i]
    /\ min_samples = 1 => \A i \in DOMAIN labels : labels[i] # NoiseLabel

\* A noise face, a core face and a clustered non-core face in one run.
C20_Witness ==
  /\ pc = "clustered"
  /\ \E i \in DOMAIN labels : labels[i] = NoiseLabel
  /\ \E i \in CoreFaces : labels[i] # NoiseLabel
  /\ \E i \in DOMAIN labels : labels[i] # NoiseLabel /\ ~CoreFace(i)

\* ----------------------------------------------------------------- C21
\* C21: within one of two concurrent runs no destination is copied to
\* twice, but check and copy are two steps: a run that found a destination
\* absent copies to it whatever the other run did since, so a destination
\* is copied to twice exactly when the second copy came from the other
\* run, which had made its check before the first copy.
C21_CheckThenCopy ==
  pc = "concurrent" =>
    /\ \A j, k \in DOMAIN copyOps :
         (copyOps[j].run = copyOps[k].run /\ copyOps[j].dst = copyOps[k].dst) => j = k
    /\ \A j, k \in DOMAIN copyOps :
         (j < k /\ copyOps[j].dst = copyOps[k].dst) =>
           copyOps[k].dst \in procs[copyOps[k].run].raced
    /\ \A p \in Procs :
         /\ \A dst \in procs[p].raced :
              \E j, k \in DOMAIN copyOps :
                /\ j < k
                /\ copyOps[j].dst = dst /\ copyOps[j].run # p
                /\ copyOps[k].dst = dst /\ copyOps[k].run = p
         /\ (procs[p].at = "copy" /\ DstExists(fs, procs[p].cur.dst)) =>
              \E j \in DOMAIN copyOps :
                copyOps[j].dst = procs[p].cur.dst /\ copyOps[j].run # p

\* Both runs found one destination absent and both copied the same image
\* to it.
C21_Witness ==
  /\ pc = "concurrent"
  /\ \E j, k \in DOMAIN copyOps :
       /\ j < k
       /\ copyOps[j].run # copyOps[k].run
       /\ copyOps[j].dst = copyOps[k].dst
       /\ copyOps[j].src = copyOps[k].src
       /\ copyOps[j].bucket = copyOps[k].bucket

\* ----------------------------------------------------------------- C22
ReasonTags ==
  {"eligible_person_image", "group_only_person_on_image", "noise_only_image"}

\* the faces of the run that are logged: every clustered face, and the
\* noise faces of the images without a clustered face
LoggedFaces ==
  { i \in DOMAIN records : labels[i] # NoiseLabel \/ NoiseOnly(records[i].img_path) }

\* C22: the report of a run holds the rows of that run and no other, one
\* per logged face; every reason is one of the three tags, and the tag
\* goes with the folder: eligible_person_image with a person name,
\* group_only_person_on_image with __group_only__, noise_only_image with
\* __unknown__.
C22_ReportOfTheRun ==
  pc = "done" =>
    /\ report = log
    /\ Len(report) = Cardinality(LoggedFaces)
    /\ \A k \in DOMAIN report :
         LET row == report[k]
         IN  /\ row.reason \in ReasonTags
             /\ row.reason = "eligible_person_image" <=>
                  row.assigned_folder \in PersonFolders
             /\ row.reason = "group_only_person_on_image" <=>
                  row.assigned_folder = GroupOnlyDir
             /\ row.reason = "noise_only_image" <=>
                  row.assigned_folder = UnknownDir

\* A later run has written its report over a report with rows of two tags.
C22_Witness ==
  /\ pc = "done"
  /\ run = 2
  /\ \E j, k \in DOMAIN report : report[j].reason # report[k].reason
  /\ Len(prev.report) = Len(report)

\* ----------------------------------------------------------------- C23
\* the directory a destination path lies in
FolderOf(dst) == dst[1]

\* C23: once a copy of the run was made, the root, both buckets and the
\* directory of every named cluster exist, and every file of the output
\* lies in a directory that was made.
C23_FoldersBeforeCopies ==
  /\ \A dst \in DOMAIN fs : FolderOf(dst) \in dirs
  /\ copyOps # << >> =>
       ({OutDir, UnknownDir, GroupOnlyDir} \cup PersonFolders) \subseteq dirs
  /\ pc \in {"route", "flush_group", "flush_unknown", "report", "done"} =>
       ({OutDir, UnknownDir, GroupOnlyDir} \cup PersonFolders) \subseteq dirs

\* A copy went into a person folder while another named cluster had no
\* copy yet.
C23_Witness ==
  /\ pc = "route"
  /\ Len(copyOps) = 1
  /\ copyOps[1].bucket \in PersonFolders
  /\ Cardinality(PersonFolders) >= 2

\* ----------------------------------------------------------------- C24
\* the first copy that was made to dst
FirstCopyTo(dst) == copyOps[Min({ k \in DOMAIN copyOps : copyOps[k].dst = dst })]

\* C24: no destination is copied to twice and every file of the output
\* holds what its first copy put there; a run that finds every
\* destination occupied copies nothing and logs the rows all the same.
C24_OccupiedNotOverwritten ==
  /\ \A j, k \in DOMAIN copyOps : copyOps[j].dst = copyOps[k].dst => j = k
  /\ \A dst \in DOMAIN fs :
       /\ \E k \in DOMAIN copyOps : copyOps[k].dst = dst
       /\ fs[dst] = FirstCopyTo(dst).src
  /\ (run > 1 /\ pc = "done") =>
       /\ Len(log) = Cardinality(LoggedFaces)
       /\ \A src \in staged_unknown : Copies(run, src, UnknownDir) = {}
       /\ \A src \in staged_group_only : Copies(run, src, GroupOnlyDir) = {}

\* A run found the destinations of a person copy and of a bucket copy
\* occupied and has logged its rows.
C24_Witness ==
  /\ pc = "done"
  /\ run = 2
  /\ \E k \in DOMAIN copyOps : copyOps[k].bucket \in PersonFolders
  /\ \E k \in DOMAIN copyOps : copyOps[k].bucket \in {UnknownDir, GroupOnlyDir}
  /\ log # << >>

\* ----------------------------------------------------------------- C25
\* the row face i gives rise to, << >> if none
ExpectedRow(i) ==
  LET src == records[i].img_path
  IN  IF labels[i] \in eligible_clusters
      THEN << Row(records[i], cluster_to_name[labels[i]], "eligible_person_image") >>
      ELSE IF labels[i] # NoiseLabel
      THEN << Row(records[i], GroupOnlyDir, "group_only_person_on_image") >>
      ELSE IF NoiseOnly(src)
      THEN << Row(records[i], UnknownDir, "noise_only_image") >>
      ELSE << >>

\* C25: the report holds, for every face, the one row of its kind, as
\* often as there are faces with that row, and nothing else; a noise face
\* on an image with a clustered face has no row.
C25_OneRowPerFace ==
  pc = "done" =>
    /\ Len(report) <= Len(records)
    /\ \A k \in DOMAIN report : \E i \in DOMAIN records : ExpectedRow(i) = << report[k] >>
    /\ \A i \in DOMAIN records :
         ExpectedRow(i) # << >> =>
           Cardinality({ k \in DOMAIN report : << report[k] >> = ExpectedRow(i) })
             = Cardinality({ j \in DOMAIN records : ExpectedRow(j) = ExpectedRow(i) })
    /\ Len(report) = Cardinality({ i \in DOMAIN records : ExpectedRow(i) # << >> })

\* A report was written for a noise face without a row beside a clustered
\* face with one.
C25_Witness ==
  /\ pc = "done"
  /\ \E i, j \in DOMAIN records :
       /\ records[i].img_path = records[j].img_path
       /\ labels[i] = NoiseLabel
       /\ labels[j] # NoiseLabel
  /\ Len(report) < Len(records)
  /\ report # << >>

\* ----------------------------------------------------------------- C26
\* C26: two different images routed to one bucket have different
\* destinations there, and each is in the bucket after the run.
C26_DistinctDestinations ==
  (run = 1 /\ pc = "done") =>
    \A folder \in {UnknownDir, GroupOnlyDir} \cup PersonFolders :
      \A s1, s2 \in Images :
        ( /\ s1 # s2
          /\ \E k \in DOMAIN report :
               report[k].file = Name(s1) /\ report[k].assigned_folder = folder
          /\ \E k \in DOMAIN report :
               report[k].file = Name(s2) /\ report[k].assigned_folder = folder
          /\ IF folder = UnknownDir THEN {s1, s2} \subseteq staged_unknown
             ELSE IF folder = GroupOnlyDir THEN {s1, s2} \subseteq staged_group_only
             ELSE {<< folder, s1 >>, << folder, s2 >>} \subseteq copied_person_image )
        => /\ DstIn(s1, folder) # DstIn(s2, folder)
           /\ Placed(s1, folder)
           /\ Placed(s2, folder)

\* ----------------------------------------------------------------- C27
\* C27: no folder path is in the processing queue twice.
C27_QueueWithoutDuplicates ==
  \A i, j \in DOMAIN processing_queue :
    processing_queue[i] = processing_queue[j] => i = j

\* A folder was taken from the queue as done and added again behind
\* another one.
C27_Witness ==
  /\ processed # << >>
  /\ processed[1].removed
  /\ Len(processing_queue) = 2
  /\ processing_queue[2] = processed[1].current

\* ----------------------------------------------------------------- C28
\* C28: the last call of process_images, once returned, has left
\* processing_state at 'completed' or 'error', and has taken the current
\* folder from the queue if it was a queued one.
C28_ReturnsCompletedOrError ==
  (pc = "app" /\ processed # << >>) =>
    /\ processed[1].state \in {"completed", "error"}
    /\ processed[1].queued => processed[1].removed

\* ----------------------------------------------------------------- C29
\* C29: when process_images is called while current_processing is a
\* queued folder, the temp dir it reads holds the images of that folder.
C29_CurrentFolderProcessed ==
  (processed # << >> /\ processed[1].queued) =>
    processed[1].input = processed[1].current

\* ----------------------------------------------------------------- C30
\* C30: after a job, the files of a person folder all come from one job's
\* folder, and the rows of the report an earlier job wrote are still in
\* the report.
C30_JobsApart ==
  (pc = "app" /\ processed # << >> /\ processed[1].state = "completed") =>
    /\ \A d1, d2 \in DOMAIN fs :
         (FolderOf(d1) = FolderOf(d2) /\ FolderOf(d1) \in PersonFolders) =>
           Origin(fs[d1]) = Origin(fs[d2])
    /\ prev.fs # << >> =>
         \A k \in DOMAIN prev.report : \E j \in DOMAIN report : report[j] = prev.report[k]

====
